---- MODULE Spec2Model ----
(***************************************************************************)
(* Model of the worker-attendance face detection service                   *)
(* (unified_video_detection.py): the session state machine driven by the   *)
(* main loop run_with_commands, the command file polled by check_commands, *)
(* the worker loader and the best-match recogniser.                        *)
(*                                                                         *)
(* Distances are kept in hundredths (0.45 is 45); an embedding is a point  *)
(* on a line and face_distance is the Euclidean distance between points.   *)
(***************************************************************************)
EXTENDS Integers, Sequences, FiniteSets, TLC

VARIABLES
    detection_mode,        \* "idle" | "detecting" | "confirmation"
    detection_count,       \* self.detection_count
    recognition_result,    \* self.recognition_result (None or a result)
    workers,               \* self.workers
    recognition_enabled,   \* self.recognition_enabled
    running,               \* self.running
    pc,                    \* position of the main loop
    command_file,          \* content of face_detection_command.txt, or NoFile
    command,               \* check_commands' local: the command read
    frame,                 \* the frame last read by process_frame
    out,                   \* messages sent by the last step of the service
    matcher_calls,         \* history: recognize_face calls of the last tick or command
    run_nonempty,          \* history: current run of non-empty observations in detecting
    faces_since_start,     \* history: non-empty observations since start_detection
    empty_run,             \* history: current run of empty observations in detecting
    recognitions,          \* history: signin_recognition events since start_detection
    announced,             \* history: sign-in fields of the signin_recognition sent since
                           \* the last start_detection, stop_detection or confirm_signin
    \* the loader and the recogniser on their own (MatcherSpec)
    m_pc,                  \* "off" | "input" | "loaded" | "matched"
    m_store,               \* the workers folder given to load_workers
    m_query,               \* the face encoding given to recognize_face
    m_workers,             \* self.workers after the load
    m_enabled,             \* self.recognition_enabled after the load
    m_load_out,            \* the messages of the load
    m_match,               \* what recognize_face returned
    \* the main loop statement by statement (LoopSpec)
    l_pc,                  \* the statement the loop is at
    l_cpc,                 \* the statement check_commands is at, or "idle"
    l_file,                \* content of the command file, or NoFile
    l_cmd,                 \* check_commands' local: the command read
    l_mode,                \* self.detection_mode
    l_running,             \* self.running
    l_workers,             \* self.workers
    l_snapshot,            \* history: self.workers when recognize_face was entered
    l_idx,                 \* recognize_face's position in "for worker in self.workers"
    \* the command file as a channel (ChannelSpec)
    c_pc,                  \* the statement the loop is at
    c_file,                \* content of the command file, or NoFile
    c_cmd,                 \* check_commands' local: the command read
    c_written,             \* history: the commands the host wrote, in order
    c_applied,             \* history: the commands check_commands applied, in order
    \* the training capture program (TrainingSpec)
    t_main,                \* the statement the main thread is at
    t_reader,              \* the statement the command thread is at
    t_is_running,          \* self.is_running
    t_stdin,               \* the lines written to stdin and not yet read
    t_cmd,                 \* read_commands' local: the command read
    t_frames               \* history: frames sent, counted up to MaxFrames

vars == <<detection_mode, detection_count, recognition_result, workers,
          recognition_enabled, running, pc, command_file, command, frame, out,
          matcher_calls, run_nonempty, faces_since_start, empty_run, recognitions,
          announced,
          m_pc, m_store, m_query, m_workers, m_enabled, m_load_out, m_match,
          l_pc, l_cpc, l_file, l_cmd, l_mode, l_running, l_workers, l_snapshot, l_idx,
          c_pc, c_file, c_cmd, c_written, c_applied,
          t_main, t_reader, t_is_running, t_stdin, t_cmd, t_frames>>

channel_vars == <<c_pc, c_file, c_cmd, c_written, c_applied>>
training_vars == <<t_main, t_reader, t_is_running, t_stdin, t_cmd, t_frames>>
matcher_vars == <<m_pc, m_store, m_query, m_workers, m_enabled, m_load_out, m_match>>
loop_vars == <<l_pc, l_cpc, l_file, l_cmd, l_mode, l_running, l_workers, l_snapshot, l_idx>>
service_vars == <<detection_mode, detection_count, recognition_result, workers,
                  recognition_enabled, running, pc, command_file, command, frame, out,
                  matcher_calls, run_nonempty, faces_since_start, empty_run, recognitions,
                  announced>>

session == <<detection_mode, detection_count, recognition_result>>

----------------------------------------------------------------------------
(* Program constants *)

detection_threshold == 5
min_confidence_distance == 45
ambiguity_threshold == 15

(* Bounds of the model *)

\* saturation of the history counter empty_run
EmptyRunCap == 6
\* saturation of the history counter recognitions
RecognitionsCap == 2

None == [none |-> TRUE]
NoFile == "<no file>"

Min(a, b) == IF a < b THEN a ELSE b
Max(a, b) == IF a > b THEN a ELSE b
Abs(a) == IF a < 0 THEN 0 - a ELSE a

----------------------------------------------------------------------------
(* send_message: a message carries its type, its text (the fixed part of   *)
(* the formatted string), the sign-in fields, and a snapshot of the        *)
(* session at the moment it is printed.                                    *)

At(mode, count, result) == [mode |-> mode, count |-> count, pending |-> result # None]

send_message(msg_type, message, at) ==
    [type |-> msg_type, message |-> message, worker_name |-> "",
     confidence |-> -1, worker_id |-> -1, at |-> at]

send_signin(msg_type, result, at) ==
    [type |-> msg_type, message |-> "", worker_name |-> result.worker_name,
     confidence |-> result.confidence, worker_id |-> result.worker_id, at |-> at]

\* the sign-in fields of a message
SigninFields(m) ==
    [worker_name |-> m.worker_name, confidence |-> m.confidence, worker_id |-> m.worker_id]

\* the sign-in fields of the last message of type t in msgs, or dflt
LastSignin(msgs, t, dflt) ==
    LET idx == {i \in 1..Len(msgs) : msgs[i].type = t}
    IN IF idx = {} THEN dflt
       ELSE SigninFields(msgs[CHOOSE i \in idx : \A j \in idx : j <= i])

CountType(msgs, t) == Cardinality({i \in 1..Len(msgs) : msgs[i].type = t})

----------------------------------------------------------------------------
(* The workers folder: a list of JSON files.  A stored encoding is a       *)
(* base64 string, which decodes to a point or fails to decode.             *)

Enc(v) == [ok |-> TRUE, val |-> v]
BadEnc == [ok |-> FALSE, val |-> 0]

WorkerFile(id, name, active, encs) ==
    [json_ok |-> TRUE, Id |-> id, Name |-> name, IsActive |-> active, FaceEncodings |-> encs]
CorruptFile ==
    [json_ok |-> FALSE, Id |-> 0, Name |-> "Unknown", IsActive |-> TRUE, FaceEncodings |-> <<>>]

FileAlice == WorkerFile(1, "Alice", TRUE, <<Enc(0), Enc(10)>>)
FileBob == WorkerFile(2, "Bob", TRUE, <<Enc(60)>>)
FileInactive == WorkerFile(3, "Carol", FALSE, <<Enc(5)>>)
FileNoFace == WorkerFile(4, "Dave", TRUE, <<>>)
FileBadEnc == WorkerFile(5, "Erin", TRUE, <<Enc(40), BadEnc>>)

Folder(exists, files) == [exists |-> exists, files |-> files]

Stores ==
    { Folder(FALSE, <<>>),
      Folder(TRUE, <<>>),
      Folder(TRUE, <<FileAlice>>),
      Folder(TRUE, <<FileAlice, FileBob>>),
      Folder(TRUE, <<FileBob, FileAlice>>),
      Folder(TRUE, <<FileInactive, FileNoFace>>),
      Folder(TRUE, <<FileBadEnc, CorruptFile, FileAlice>>) }

(* The query embeddings a frame can show, and the frames *)
Queries == {5, 40, 60, 110}

\* a frame: whether cap.read() succeeded, the number of faces the Haar
\* cascade finds and the encodings of the faces dlib finds (the two
\* detectors may disagree)
Frame(ret, haar, encodings) == [ret |-> ret, haar |-> haar, encodings |-> encodings]

Frames ==
    {Frame(TRUE, 0, <<>>), Frame(TRUE, 1, <<>>), Frame(TRUE, 0, <<5>>),
     Frame(TRUE, 2, <<40, 5>>), Frame(FALSE, 0, <<>>)}
    \cup {Frame(TRUE, 1, <<q>>) : q \in Queries}

Commands == {"start_detection", "stop_detection", "confirm_signin",
             "reload_workers", "stop", "bogus"}

----------------------------------------------------------------------------
(* load_workers *)

\* base64.b64decode + np.frombuffer of every encoding of one file
DecodeAll(encs) == [i \in 1..Len(encs) |-> encs[i].val]
AllDecodable(encs) == \A i \in 1..Len(encs) : encs[i].ok

\* a loader that keeps a record with the encodings that do decode
LoadFile_keeps_decodable(file, acc, at) ==
    LET decodable == SelectSeq(file.FaceEncodings, LAMBDA e : e.ok)
    IN IF ~file.json_ok
       THEN [acc EXCEPT !.out = Append(@, send_message("status", "Error loading file", at))]
       ELSE IF ~file.IsActive
       THEN acc
       ELSE IF DecodeAll(decodable) # <<>>
       THEN [acc EXCEPT !.workers = Append(@, [id |-> file.Id, name |-> file.Name,
                                                encodings |-> DecodeAll(decodable)]),
                        !.count = @ + 1]
       ELSE acc

\* one iteration of "for filename in json_files": acc = [workers, out, count]
LoadFile(file, acc, at) ==
    IF ~file.json_ok
    THEN [acc EXCEPT !.out = Append(@, send_message("status", "Error loading file", at))]
    ELSE IF ~file.IsActive
    THEN acc
    ELSE IF ~AllDecodable(file.FaceEncodings)
    THEN [acc EXCEPT !.out = Append(@, send_message("status", "Error loading file", at))]
    ELSE IF DecodeAll(file.FaceEncodings) # <<>>
    THEN [acc EXCEPT !.workers = Append(@, [id |-> file.Id, name |-> file.Name,
                                             encodings |-> DecodeAll(file.FaceEncodings)]),
                     !.count = @ + 1]
    ELSE acc

RECURSIVE LoadFiles(_, _, _)
LoadFiles(files, acc, at) ==
    IF files = <<>> THEN acc
    ELSE LoadFiles(Tail(files), LoadFile(Head(files), acc, at), at)

\* load_workers: the new worker list, the new enabled flag, the messages
\* and the return value
load_workers(store, enabled, at) ==
    IF ~store.exists
    THEN [workers |-> <<>>, enabled |-> enabled, ret |-> FALSE,
          out |-> <<send_message("error", "Workers folder not found", at)>>]
    ELSE LET acc == LoadFiles(store.files, [workers |-> <<>>, out |-> <<>>, count |-> 0], at)
         IN IF acc.count > 0
            THEN [workers |-> acc.workers, enabled |-> TRUE, ret |-> TRUE,
                  out |-> Append(acc.out, send_message("status", "Loaded workers for recognition", at))]
            ELSE [workers |-> acc.workers, enabled |-> enabled, ret |-> FALSE,
                  out |-> Append(acc.out, send_message("status", "No workers found with face data", at))]

----------------------------------------------------------------------------
(* recognize_face *)

face_distance(stored, query) == Abs(stored - query)

\* inner loop: the best (first minimal) encoding of one worker
RECURSIVE BestEncoding(_, _, _, _)
BestEncoding(encodings, query, idx, best) ==
    IF idx > Len(encodings) THEN best
    ELSE LET distance == face_distance(encodings[idx], query)
         IN IF best.index = -1 \/ distance < best.distance
            THEN BestEncoding(encodings, query, idx + 1, [distance |-> distance, index |-> idx - 1])
            ELSE BestEncoding(encodings, query, idx + 1, best)

MatchOf(worker, query) ==
    LET best == BestEncoding(worker.encodings, query, 1, [distance |-> 0, index |-> -1])
    IN [worker |-> worker, distance |-> best.distance,
        confidence |-> 100 - best.distance, encoding_index |-> best.index]

AllMatches(ws, query) == [i \in 1..Len(ws) |-> MatchOf(ws[i], query)]

\* list.sort(key=distance): stable, ascending
RECURSIVE InsertSorted(_, _)
InsertSorted(sorted, m) ==
    IF sorted = <<>> THEN <<m>>
    ELSE IF m.distance < Head(sorted).distance
         THEN <<m>> \o sorted
         ELSE <<Head(sorted)>> \o InsertSorted(Tail(sorted), m)

\* no sort: the matches stay in the order of the workers
KeepOrder(ms) == ms

RECURSIVE SortMatches(_)
SortMatches(ms) ==
    IF ms = <<>> THEN <<>>
    ELSE InsertSorted(SortMatches(SubSeq(ms, 1, Len(ms) - 1)), ms[Len(ms)])

\* a guard that only looks at the flag
recognition_off_flag_only(enabled, ws) == ~enabled

\* if not self.recognition_enabled or not self.workers: return None
recognition_off(enabled, ws) == ~enabled \/ ws = <<>>

\* a threshold that rejects a distance equal to the maximum
too_weak_at_threshold(distance) == distance >= min_confidence_distance

\* if best_match['distance'] > self.min_confidence_distance:
too_weak(distance) == distance > min_confidence_distance

\* if distance_gap < self.ambiguity_threshold:
ambiguous(distance_gap) == distance_gap < ambiguity_threshold

\* recognize_face: the result (None or the match), the messages, and
\* whether the method was entered past its guard (scanned); best_match =
\* all_matches[0] on an empty list raises, which the except clause reports
recognize_face(face_encoding, ws, enabled, at) ==
    IF recognition_off(enabled, ws)
    THEN [result |-> None, out |-> <<>>, scanned |-> FALSE]
    ELSE LET all_matches == SortMatches(AllMatches(ws, face_encoding))
             best_match == all_matches[1]
             has_second == Len(all_matches) > 1
         IN IF all_matches = <<>>
            THEN [result |-> None, scanned |-> TRUE,
                  out |-> <<send_message("error", "Recognition error", at)>>]
            ELSE IF too_weak(best_match.distance)
            THEN [result |-> None, scanned |-> TRUE,
                  out |-> <<send_message("status", "Match too weak", at)>>]
            ELSE IF has_second /\ ambiguous(all_matches[2].distance - best_match.distance)
            THEN [result |-> None, scanned |-> TRUE,
                  out |-> <<send_message("status", "Ambiguous match", at)>>]
            ELSE [result |->
                    [worker_name |-> best_match.worker.name,
                     confidence |-> best_match.confidence,
                     worker_id |-> best_match.worker.id,
                     distance |-> best_match.distance,
                     encoding_used |-> best_match.encoding_index,
                     second_best_name |-> IF has_second THEN all_matches[2].worker.name ELSE "",
                     second_best_confidence |-> IF has_second THEN all_matches[2].confidence ELSE 0,
                     distance_gap |-> IF has_second
                                      THEN all_matches[2].distance - best_match.distance
                                      ELSE 100],
                  scanned |-> TRUE,
                  out |-> <<send_message("status", "Clear match", at)>>]

----------------------------------------------------------------------------
(* The session commands.  Each returns the new session fields, the         *)
(* messages in the order they are printed and the number of recognize_face *)
(* calls it made.                                                          *)

\* a start that only restarts the count when the session is idle
start_detection_from_idle_only(mode, count, result) ==
    IF mode = "idle"
    THEN [mode |-> "detecting", count |-> 0, result |-> None, calls |-> 0,
          out |-> <<send_message("status", "Face detection mode started for sign-in",
                                 At("detecting", 0, None))>>]
    ELSE [mode |-> mode, count |-> count, result |-> result, calls |-> 0,
          out |-> <<send_message("status", "Face detection mode started for sign-in",
                                 At(mode, count, result))>>]

\* a start that forgets to clear the prior result
start_detection_keeps_result(mode, count, result) ==
    [mode |-> "detecting", count |-> 0, result |-> result, calls |-> 0,
     out |-> <<send_message("status", "Face detection mode started for sign-in",
                            At("detecting", 0, result))>>]

start_detection(mode, count, result) ==
    [mode |-> "detecting", count |-> 0, result |-> None, calls |-> 0,
     out |-> <<send_message("status", "Face detection mode started for sign-in",
                            At("detecting", 0, None))>>]

\* a stop that forgets to discard the pending result
stop_detection_keeps_result(mode, count, result) ==
    [mode |-> "idle", count |-> 0, result |-> result, calls |-> 0,
     out |-> <<send_message("status", "Face detection mode stopped",
                            At("idle", 0, result))>>]

\* a stop that forgets to reset the count
stop_detection_keeps_count(mode, count, result) ==
    [mode |-> "idle", count |-> count, result |-> None, calls |-> 0,
     out |-> <<send_message("status", "Face detection mode stopped",
                            At("idle", count, None))>>]

stop_detection(mode, count, result) ==
    [mode |-> "idle", count |-> 0, result |-> None, calls |-> 0,
     out |-> <<send_message("status", "Face detection mode stopped",
                            At("idle", 0, None))>>]

\* a confirm that forgets the reset to idle
confirm_signin_no_reset(mode, count, result) ==
    [mode |-> mode, count |-> count, result |-> result, calls |-> 0,
     out |-> IF result # None
             THEN <<send_signin("signin_confirmed", result, At(mode, count, result)),
                    send_message("status", "Sign-in confirmed", At(mode, count, result))>>
             ELSE <<send_message("status", "No recognition result to confirm",
                                 At(mode, count, result))>>]

\* a confirm without the else branch
confirm_signin_silent(mode, count, result) ==
    [mode |-> "idle", count |-> 0, result |-> None, calls |-> 0,
     out |-> IF result # None
             THEN <<send_signin("signin_confirmed", result, At(mode, count, result)),
                    send_message("status", "Sign-in confirmed", At(mode, count, result))>>
             ELSE <<>>]

confirm_signin(mode, count, result) ==
    [mode |-> "idle", count |-> 0, result |-> None, calls |-> 0,
     out |-> IF result # None
             THEN <<send_signin("signin_confirmed", result, At(mode, count, result)),
                    send_message("status", "Sign-in confirmed", At(mode, count, result))>>
             ELSE <<send_message("status", "No recognition result to confirm",
                                 At(mode, count, result))>>]

----------------------------------------------------------------------------
(* process_frame, after a successful cap.read()                            *)

\* the dlib detector is used only when recognising
use_dlib_detector(mode, enabled) ==
    enabled /\ (mode = "detecting" \/ mode = "confirmation")

\* face_locations: dlib's locations (one encoding each), [] on the Haar path
face_locations(f, mode, enabled) ==
    IF use_dlib_detector(mode, enabled) THEN f.encodings ELSE <<>>

\* len(faces)
NumFaces(f, mode, enabled) ==
    IF use_dlib_detector(mode, enabled) THEN Len(f.encodings) ELSE f.haar

\* the confirmation state handled as detecting
is_detecting_or_confirming(mode) == mode # "idle"

\* if self.detection_mode == "detecting":
is_detecting(mode) == mode = "detecting"

\* an off-by-one threshold test
threshold_exceeded(count) == count > detection_threshold

\* if self.detection_count >= self.detection_threshold:
threshold_reached(count) == count >= detection_threshold

\* if self.recognition_enabled and face_locations: ... if face_encodings:
matcher_invoked(enabled, locations) == enabled /\ locations # <<>>

\* a recognition that stays in detecting
on_recognized_keeps_detecting(rec, mode, count1, result) ==
    [mode |-> mode, count |-> count1 - 1, result |-> result, calls |-> 1,
     out |-> rec.out \o
             <<send_signin("signin_recognition", rec.result, At(mode, count1, result)),
               send_message("status", "Waiting for confirmation",
                            At(mode, count1, result))>>]

\* if recognition_result: announce it and wait for the confirmation
on_recognized(rec, mode, count1, result) ==
    [mode |-> "confirmation", count |-> count1, result |-> rec.result, calls |-> 1,
     out |-> rec.out \o
             <<send_signin("signin_recognition", rec.result, At(mode, count1, result)),
               send_message("status", "Waiting for confirmation",
                            At("confirmation", count1, rec.result))>>]

\* an unknown face that leaves the count where it is
on_unknown_keeps_count(rec, invoked, mode, count1, result) ==
    [mode |-> "idle", count |-> count1, result |-> result,
     calls |-> IF invoked THEN 1 ELSE 0,
     out |-> rec.out \o
             <<send_message("signin_unknown", "Face not recognized - please try again",
                            At(mode, count1, result))>>]

\* else: report the unknown face and reset to idle
on_unknown(rec, invoked, mode, count1, result) ==
    [mode |-> "idle", count |-> 0, result |-> result,
     calls |-> IF invoked THEN 1 ELSE 0,
     out |-> rec.out \o
             <<send_message("signin_unknown", "Face not recognized - please try again",
                            At(mode, count1, result))>>]

\* a hard reset instead of the one-step decay
no_face_resets(count) == 0

\* no decay at all
no_face_keeps(count) == count

\* no face while detecting: if self.detection_count > 0: self.detection_count -= 1
no_face(count) == IF count > 0 THEN count - 1 ELSE count

process_frame(f, mode, count, result, ws, enabled) ==
    LET nfaces == NumFaces(f, mode, enabled)
        locations == face_locations(f, mode, enabled)
        same == [mode |-> mode, count |-> count, result |-> result,
                 calls |-> 0, out |-> <<>>]
    IN IF is_detecting(mode)
       THEN IF nfaces > 0
            THEN LET count1 == count + 1
                 IN IF threshold_reached(count1)
                    THEN LET invoked == matcher_invoked(enabled, locations)
                             rec == IF invoked
                                    THEN recognize_face(locations[1], ws, enabled,
                                                        At(mode, count1, result))
                                    ELSE [result |-> None, out |-> <<>>, scanned |-> FALSE]
                         IN IF rec.result # None
                            THEN on_recognized(rec, mode, count1, result)
                            ELSE on_unknown(rec, invoked, mode, count1, result)
                    ELSE [same EXCEPT !.count = count1]
            ELSE [same EXCEPT !.count = no_face(count)]
       ELSE same

----------------------------------------------------------------------------
(* The main loop run_with_commands and the command file                    *)

\* the service after construction
ServiceInit ==
    /\ detection_mode = "idle"
    /\ detection_count = 0
    /\ recognition_result = None
    /\ workers = <<>>
    /\ recognition_enabled = FALSE
    /\ running = FALSE
    /\ pc = "init"
    /\ command_file = NoFile
    /\ command = ""
    /\ frame = Frame(TRUE, 0, <<>>)
    /\ out = <<>>
    /\ matcher_calls = 0
    /\ run_nonempty = 0
    /\ faces_since_start = 0
    /\ empty_run = 0
    /\ recognitions = 0
    /\ announced = None

\* the loader and recogniser exercise is not running
MatcherOff ==
    /\ m_pc = "off"
    /\ m_store = Folder(FALSE, <<>>)
    /\ m_query = 0
    /\ m_workers = <<>>
    /\ m_enabled = FALSE
    /\ m_load_out = <<>>
    /\ m_match = [result |-> None, out |-> <<>>, scanned |-> FALSE]

\* the statement-level loop is not running
LoopOff ==
    /\ l_pc = "off"
    /\ l_cpc = "idle"
    /\ l_file = NoFile
    /\ l_cmd = ""
    /\ l_mode = "idle"
    /\ l_running = FALSE
    /\ l_workers = <<>>
    /\ l_snapshot = <<>>
    /\ l_idx = 0

\* the command channel exercise is not running
ChannelOff ==
    /\ c_pc = "off"
    /\ c_file = NoFile
    /\ c_cmd = ""
    /\ c_written = <<>>
    /\ c_applied = <<>>

\* the training capture program is not running
TrainingOff ==
    /\ t_main = "off"
    /\ t_reader = "off"
    /\ t_is_running = FALSE
    /\ t_stdin = <<>>
    /\ t_cmd = ""
    /\ t_frames = 0

Init == ServiceInit /\ MatcherOff /\ LoopOff /\ ChannelOff /\ TrainingOff

Now == At(detection_mode, detection_count, recognition_result)

\* initialize(), then running = True
Initialize ==
    /\ UNCHANGED <<matcher_vars, loop_vars, channel_vars, training_vars>>
    /\ pc = "init"
    /\ \E store \in Stores, camera_opened \in BOOLEAN :
         LET load == load_workers(store, recognition_enabled, Now)
         IN /\ workers' = load.workers
            /\ recognition_enabled' = load.enabled
            /\ running' = camera_opened
            /\ pc' = IF camera_opened THEN "loop" ELSE "done"
            /\ out' = <<send_message("status", "Initializing camera and loading workers...", Now)>>
                      \o load.out \o
                      (IF camera_opened
                       THEN <<send_message("status", "Camera initialized", Now),
                              send_message("status", "Video feed started with face recognition", Now)>>
                       ELSE <<send_message("error", "Could not open camera", Now)>>)
    /\ UNCHANGED <<session, command_file, command, frame, matcher_calls,
                   run_nonempty, faces_since_start, empty_run, recognitions, announced>>

\* while self.running:
LoopTest ==
    /\ UNCHANGED <<matcher_vars, loop_vars, channel_vars, training_vars>>
    /\ pc = "loop"
    /\ pc' = IF running THEN "check" ELSE "finally"
    /\ out' = <<>>
    /\ UNCHANGED <<session, workers, recognition_enabled, running, command_file,
                   command, frame, matcher_calls, run_nonempty, faces_since_start,
                   empty_run, recognitions, announced>>

\* check_commands: os.path.exists and f.read()
CheckCommandsRead ==
    /\ UNCHANGED <<matcher_vars, loop_vars, channel_vars, training_vars>>
    /\ pc = "check"
    /\ IF command_file = NoFile
       THEN pc' = "frame" /\ command' = command
       ELSE pc' = "remove" /\ command' = command_file
    /\ out' = <<>>
    /\ UNCHANGED <<session, workers, recognition_enabled, running, command_file,
                   frame, matcher_calls, run_nonempty, faces_since_start,
                   empty_run, recognitions, announced>>

\* an if/elif chain that ends in an else which stops the detection
Dispatch_else_stops(cmd, mode, count, result) ==
    IF cmd = "start_detection" THEN start_detection(mode, count, result)
    ELSE IF cmd = "confirm_signin" THEN confirm_signin(mode, count, result)
    ELSE IF cmd \in {"reload_workers", "stop"}
    THEN [mode |-> mode, count |-> count, result |-> result, calls |-> 0, out |-> <<>>]
    ELSE stop_detection(mode, count, result)

\* a chain in which reload_workers also ends the session
Dispatch_reload_resets(cmd, mode, count, result) ==
    IF cmd = "start_detection" THEN start_detection(mode, count, result)
    ELSE IF cmd = "stop_detection" THEN stop_detection(mode, count, result)
    ELSE IF cmd = "confirm_signin" THEN confirm_signin(mode, count, result)
    ELSE IF cmd = "reload_workers"
    THEN [mode |-> "idle", count |-> 0, result |-> None, calls |-> 0, out |-> <<>>]
    ELSE [mode |-> mode, count |-> count, result |-> result, calls |-> 0, out |-> <<>>]

\* the if/elif chain of check_commands on the session
Dispatch(cmd, mode, count, result) ==
    IF cmd = "start_detection" THEN start_detection(mode, count, result)
    ELSE IF cmd = "stop_detection" THEN stop_detection(mode, count, result)
    ELSE IF cmd = "confirm_signin" THEN confirm_signin(mode, count, result)
    ELSE [mode |-> mode, count |-> count, result |-> result, calls |-> 0, out |-> <<>>]

\* check_commands: os.remove, then the command is applied
CheckCommandsApply ==
    /\ UNCHANGED <<matcher_vars, loop_vars, channel_vars, training_vars>>
    /\ pc = "remove"
    /\ command_file' = NoFile
    /\ LET r == Dispatch(command, detection_mode, detection_count, recognition_result)
           received == <<send_message("status", "Received command", Now)>>
       IN /\ detection_mode' = r.mode
          /\ detection_count' = r.count
          /\ recognition_result' = r.result
          /\ matcher_calls' = r.calls
          /\ IF command = "reload_workers"
             THEN \E store \in Stores :
                    LET load == load_workers(store, recognition_enabled, Now)
                    IN /\ workers' = load.workers
                       /\ recognition_enabled' = load.enabled
                       /\ out' = received \o load.out
             ELSE /\ UNCHANGED <<workers, recognition_enabled>>
                  /\ out' = received \o r.out
    /\ running' = IF command = "stop" THEN FALSE ELSE running
    /\ run_nonempty' = IF command \in {"start_detection", "stop_detection", "confirm_signin"}
                       THEN 0 ELSE run_nonempty
    /\ faces_since_start' = IF command = "start_detection" THEN 0 ELSE faces_since_start
    /\ recognitions' = IF command = "start_detection" THEN 0 ELSE recognitions
    /\ empty_run' = 0
    /\ announced' = IF command \in {"start_detection", "stop_detection", "confirm_signin"}
                    THEN None ELSE announced
    /\ pc' = "frame"
    /\ UNCHANGED <<command, frame>>

\* process_frame, the frame message and the sleep; a failed read breaks the loop
ProcessFrame ==
    /\ UNCHANGED <<matcher_vars, loop_vars, channel_vars, training_vars>>
    /\ pc = "frame"
    /\ \E f \in Frames :
         /\ frame' = f
         /\ IF ~f.ret
            THEN /\ out' = <<send_message("error", "Failed to read frame", Now)>>
                 /\ pc' = "finally"
                 /\ UNCHANGED <<session, matcher_calls, run_nonempty,
                                faces_since_start, empty_run, recognitions, announced>>
            ELSE LET r == process_frame(f, detection_mode, detection_count,
                                        recognition_result, workers, recognition_enabled)
                     nfaces == NumFaces(f, detection_mode, recognition_enabled)
                     detecting == detection_mode = "detecting"
                 IN /\ detection_mode' = r.mode
                    /\ detection_count' = r.count
                    /\ recognition_result' = r.result
                    /\ matcher_calls' = r.calls
                    /\ out' = Append(r.out, send_message("frame", "",
                                       At(r.mode, r.count, r.result)))
                    /\ pc' = "loop"
                    /\ run_nonempty' = IF detecting /\ nfaces > 0
                                       THEN Min(run_nonempty + 1, detection_threshold + 1)
                                       ELSE 0
                    /\ faces_since_start' = IF detecting /\ nfaces > 0
                                            THEN Min(faces_since_start + 1, detection_threshold)
                                            ELSE faces_since_start
                    /\ empty_run' = IF detecting /\ nfaces = 0
                                    THEN Min(empty_run + 1, EmptyRunCap)
                                    ELSE 0
                    /\ recognitions' = Min(recognitions + CountType(r.out, "signin_recognition"),
                                           RecognitionsCap)
                    /\ announced' = LastSignin(r.out, "signin_recognition", announced)
    /\ UNCHANGED <<workers, recognition_enabled, running, command_file, command>>

\* finally: release the camera, last status
Finally ==
    /\ UNCHANGED <<matcher_vars, loop_vars, channel_vars, training_vars>>
    /\ pc = "finally"
    /\ out' = <<send_message("status", "Video feed stopped", Now)>>
    /\ pc' = "done"
    /\ UNCHANGED <<session, workers, recognition_enabled, running, command_file,
                   command, frame, matcher_calls, run_nonempty, faces_since_start,
                   empty_run, recognitions, announced>>

\* the host application writes a command file
HostWrite ==
    /\ UNCHANGED <<matcher_vars, loop_vars, channel_vars, training_vars>>
    /\ pc # "done"
    /\ \E c \in Commands : command_file' = c
    /\ UNCHANGED <<session, workers, recognition_enabled, running, pc, command,
                   frame, out, matcher_calls, run_nonempty, faces_since_start,
                   empty_run, recognitions, announced>>

Next ==
    \/ Initialize
    \/ LoopTest
    \/ CheckCommandsRead
    \/ CheckCommandsApply
    \/ ProcessFrame
    \/ Finally
    \/ HostWrite

Spec == Init /\ [][Next]_vars

TypeOK ==
    /\ detection_mode \in {"idle", "detecting", "confirmation"}
    /\ detection_count \in 0..detection_threshold
    /\ recognition_enabled \in BOOLEAN
    /\ running \in BOOLEAN
    /\ pc \in {"init", "loop", "check", "remove", "frame", "finally", "done"}
    /\ command_file \in Commands \cup {NoFile}
    /\ frame \in Frames

----------------------------------------------------------------------------
(* load_workers and recognize_face on their own: the folder, the query and *)
(* the flag left by an earlier load are drawn from bounded sets, then the  *)
(* folder is loaded and the query is matched against what was loaded.      *)

\* the files a folder of this exercise can hold, at most one per worker
MatcherFiles ==
    {WorkerFile(1, "Alice", TRUE, e) :
        e \in {<<Enc(30)>>, <<Enc(45)>>, <<Enc(46)>>, <<Enc(80), Enc(30)>>,
               <<Enc(30), Enc(80), Enc(45)>>, <<Enc(45), BadEnc>>, <<>>}}
    \cup {WorkerFile(1, "Alice", FALSE, <<Enc(30)>>)}
    \cup {WorkerFile(2, "Bob", TRUE, e) :
        e \in {<<Enc(60)>>, <<Enc(59)>>, <<Enc(45)>>, <<Enc(20), Enc(90)>>}}
    \cup {WorkerFile(3, "Carol", TRUE, e) : e \in {<<Enc(75)>>, <<Enc(44)>>}}
    \cup {CorruptFile}

MaxFiles == 3

\* os.listdir order is arbitrary: every order of every choice of files
MatcherStores ==
    {Folder(FALSE, <<>>)}
    \cup UNION {{Folder(TRUE, fs) :
                   fs \in {g \in [1..n -> MatcherFiles] :
                              \A i, j \in 1..n : i # j => g[i].Name # g[j].Name}} :
                n \in 1..MaxFiles}

MatcherQueries == {0, 15}

MatcherInit ==
    /\ ServiceInit
    /\ LoopOff
    /\ ChannelOff
    /\ TrainingOff
    /\ m_pc = "input"
    /\ m_store \in MatcherStores
    /\ m_query \in MatcherQueries
    /\ m_enabled \in BOOLEAN
    /\ m_workers = <<>>
    /\ m_load_out = <<>>
    /\ m_match = [result |-> None, out |-> <<>>, scanned |-> FALSE]

\* load_workers() or reload_workers()
MatcherLoad ==
    /\ m_pc = "input"
    /\ LET loaded == load_workers(m_store, m_enabled, Now)
       IN /\ m_workers' = loaded.workers
          /\ m_enabled' = loaded.enabled
          /\ m_load_out' = loaded.out
    /\ m_pc' = "loaded"
    /\ UNCHANGED <<m_store, m_query, m_match, service_vars, loop_vars, channel_vars, training_vars>>

\* recognize_face(face_encoding)
MatcherRecognize ==
    /\ m_pc = "loaded"
    /\ m_match' = recognize_face(m_query, m_workers, m_enabled, Now)
    /\ m_pc' = "matched"
    /\ UNCHANGED <<m_store, m_query, m_workers, m_enabled, m_load_out, service_vars, loop_vars, channel_vars, training_vars>>

MatcherNext == MatcherLoad \/ MatcherRecognize

MatcherSpec == MatcherInit /\ [][MatcherNext]_vars

----------------------------------------------------------------------------
(* run_with_commands statement by statement: check_commands and            *)
(* process_frame are split at every statement that reads or writes the     *)
(* command file, the worker list or the session, and recognize_face at     *)
(* every iteration of its loop over the workers.  The debounce count and   *)
(* the distances are left out: whether a frame reaches recognize_face and  *)
(* what it decides are free choices.                                       *)

\* the worker lists a load can produce
LoadedWorkers == {load_workers(st, FALSE, Now).workers : st \in Stores}

\* a call that only starts check_commands and goes on without waiting
check_commands_spawned(cpc) == TRUE

\* check_commands() is an ordinary call: the loop goes on when it returned
check_commands_returned(cpc) == cpc = "idle"

LoopInit ==
    /\ ServiceInit
    /\ MatcherOff
    /\ ChannelOff
    /\ TrainingOff
    /\ l_pc = "while"
    /\ l_cpc = "idle"
    /\ l_file = NoFile
    /\ l_cmd = ""
    /\ l_mode = "idle"
    /\ l_running = TRUE
    /\ l_workers \in LoadedWorkers
    /\ l_snapshot = <<>>
    /\ l_idx = 0

\* while self.running: check_commands()
LoopWhile ==
    /\ l_pc = "while"
    /\ IF l_running
       THEN l_pc' = "check_commands" /\ l_cpc' = "exists"
       ELSE l_pc' = "finally" /\ UNCHANGED l_cpc
    /\ UNCHANGED <<l_file, l_cmd, l_mode, l_running, l_workers, l_snapshot, l_idx>>
    /\ UNCHANGED <<service_vars, matcher_vars, channel_vars, training_vars>>

\* if os.path.exists(command_file)
LoopExists ==
    /\ l_cpc = "exists"
    /\ l_cpc' = IF l_file = NoFile THEN "idle" ELSE "read"
    /\ UNCHANGED <<l_pc, l_file, l_cmd, l_mode, l_running, l_workers, l_snapshot, l_idx>>
    /\ UNCHANGED <<service_vars, matcher_vars, channel_vars, training_vars>>

\* command = f.read().strip()
LoopRead ==
    /\ l_cpc = "read"
    /\ l_cmd' = l_file
    /\ l_cpc' = "remove"
    /\ UNCHANGED <<l_pc, l_file, l_mode, l_running, l_workers, l_snapshot, l_idx>>
    /\ UNCHANGED <<service_vars, matcher_vars, channel_vars, training_vars>>

\* os.remove(command_file)
LoopRemove ==
    /\ l_cpc = "remove"
    /\ l_file' = NoFile
    /\ l_cpc' = "dispatch"
    /\ UNCHANGED <<l_pc, l_cmd, l_mode, l_running, l_workers, l_snapshot, l_idx>>
    /\ UNCHANGED <<service_vars, matcher_vars, channel_vars, training_vars>>

\* the if/elif chain of check_commands, and its return
LoopDispatch ==
    /\ l_cpc = "dispatch"
    /\ l_mode' = CASE l_cmd = "start_detection" -> "detecting"
                   [] l_cmd \in {"stop_detection", "confirm_signin"} -> "idle"
                   [] OTHER -> l_mode
    /\ IF l_cmd = "reload_workers"
       THEN l_workers' \in LoadedWorkers
       ELSE l_workers' = l_workers
    /\ l_running' = IF l_cmd = "stop" THEN FALSE ELSE l_running
    /\ l_cmd' = ""
    /\ l_cpc' = "idle"
    /\ UNCHANGED <<l_pc, l_file, l_snapshot, l_idx>>
    /\ UNCHANGED <<service_vars, matcher_vars, channel_vars, training_vars>>

\* frame = self.process_frame(): entered once check_commands has returned
LoopCallProcessFrame ==
    /\ l_pc = "check_commands"
    /\ check_commands_returned(l_cpc)
    /\ l_pc' = "cap_read"
    /\ UNCHANGED <<l_cpc, l_file, l_cmd, l_mode, l_running, l_workers, l_snapshot, l_idx>>
    /\ UNCHANGED <<service_vars, matcher_vars, channel_vars, training_vars>>

\* ret, frame = self.cap.read(); a failed read ends the loop
LoopCapRead ==
    /\ l_pc = "cap_read"
    /\ \E ret \in BOOLEAN : l_pc' = IF ret THEN "detect" ELSE "finally"
    /\ UNCHANGED <<l_cpc, l_file, l_cmd, l_mode, l_running, l_workers, l_snapshot, l_idx>>
    /\ UNCHANGED <<service_vars, matcher_vars, channel_vars, training_vars>>

\* face detection and the debounce count; when the count reaches the
\* threshold recognize_face is entered, which returns at once without workers
LoopDetect ==
    /\ l_pc = "detect"
    /\ \E recognise \in BOOLEAN :
         IF recognise /\ l_mode = "detecting"
         THEN /\ l_snapshot' = l_workers
              /\ l_idx' = 1
              /\ l_pc' = IF l_workers = <<>> THEN "decide" ELSE "compare"
         ELSE /\ l_pc' = "send_frame"
              /\ UNCHANGED <<l_snapshot, l_idx>>
    /\ UNCHANGED <<l_cpc, l_file, l_cmd, l_mode, l_running, l_workers>>
    /\ UNCHANGED <<service_vars, matcher_vars, channel_vars, training_vars>>

\* one iteration of "for worker in self.workers"
LoopCompare ==
    /\ l_pc = "compare"
    /\ IF l_idx <= Len(l_workers)
       THEN l_idx' = l_idx + 1 /\ l_pc' = "compare"
       ELSE l_idx' = l_idx /\ l_pc' = "decide"
    /\ UNCHANGED <<l_cpc, l_file, l_cmd, l_mode, l_running, l_workers, l_snapshot>>
    /\ UNCHANGED <<service_vars, matcher_vars, channel_vars, training_vars>>

\* the decision of recognize_face and what process_frame does with it
LoopDecide ==
    /\ l_pc = "decide"
    /\ \E accepted \in BOOLEAN :
         l_mode' = IF accepted /\ l_workers # <<>> THEN "confirmation" ELSE "idle"
    /\ l_pc' = "send_frame"
    /\ UNCHANGED <<l_cpc, l_file, l_cmd, l_running, l_workers, l_snapshot, l_idx>>
    /\ UNCHANGED <<service_vars, matcher_vars, channel_vars, training_vars>>

\* the frame message and the sleep
LoopSendFrame ==
    /\ l_pc = "send_frame"
    /\ l_pc' = "while"
    /\ UNCHANGED <<l_cpc, l_file, l_cmd, l_mode, l_running, l_workers, l_snapshot, l_idx>>
    /\ UNCHANGED <<service_vars, matcher_vars, channel_vars, training_vars>>

LoopFinally ==
    /\ l_pc = "finally"
    /\ l_pc' = "done"
    /\ UNCHANGED <<l_cpc, l_file, l_cmd, l_mode, l_running, l_workers, l_snapshot, l_idx>>
    /\ UNCHANGED <<service_vars, matcher_vars, channel_vars, training_vars>>

\* the host application writes a command file
LoopHostWrite ==
    /\ l_pc # "done"
    /\ \E c \in Commands : l_file' = c
    /\ UNCHANGED <<l_pc, l_cpc, l_cmd, l_mode, l_running, l_workers, l_snapshot, l_idx>>
    /\ UNCHANGED <<service_vars, matcher_vars, channel_vars, training_vars>>

LoopNext ==
    \/ LoopWhile
    \/ LoopExists
    \/ LoopRead
    \/ LoopRemove
    \/ LoopDispatch
    \/ LoopCallProcessFrame
    \/ LoopCapRead
    \/ LoopDetect
    \/ LoopCompare
    \/ LoopDecide
    \/ LoopSendFrame
    \/ LoopFinally
    \/ LoopHostWrite

LoopSpec == LoopInit /\ [][LoopNext]_vars

----------------------------------------------------------------------------
(* The command file as a channel: the poll of check_commands statement by  *)
(* statement, the host writing the file at any point, and the history of   *)
(* what was written and what was applied.  The loop is the running one:    *)
(* the "stop" command, which ends it, is not among the commands written.   *)

MaxWrites == 3

ChannelCommands == Commands \ {"stop"}

ChannelInit ==
    /\ ServiceInit
    /\ MatcherOff
    /\ LoopOff
    /\ TrainingOff
    /\ c_pc = "exists"
    /\ c_file = NoFile
    /\ c_cmd = ""
    /\ c_written = <<>>
    /\ c_applied = <<>>

\* if os.path.exists(command_file)
ChannelExists ==
    /\ c_pc = "exists"
    /\ c_pc' = IF c_file = NoFile THEN "frame" ELSE "read"
    /\ UNCHANGED <<c_file, c_cmd, c_written, c_applied>>
    /\ UNCHANGED <<service_vars, matcher_vars, loop_vars, training_vars>>

\* command = f.read().strip()
ChannelRead ==
    /\ c_pc = "read"
    /\ c_cmd' = c_file
    /\ c_pc' = "remove"
    /\ UNCHANGED <<c_file, c_written, c_applied>>
    /\ UNCHANGED <<service_vars, matcher_vars, loop_vars, training_vars>>

\* os.remove(command_file): removes whatever the file holds by now
ChannelRemove ==
    /\ c_pc = "remove"
    /\ c_file' = NoFile
    /\ c_pc' = "dispatch"
    /\ UNCHANGED <<c_cmd, c_written, c_applied>>
    /\ UNCHANGED <<service_vars, matcher_vars, loop_vars, training_vars>>

\* the if/elif chain applies the command that was read
ChannelDispatch ==
    /\ c_pc = "dispatch"
    /\ c_applied' = Append(c_applied, c_cmd)
    /\ c_pc' = "frame"
    /\ UNCHANGED <<c_file, c_cmd, c_written>>
    /\ UNCHANGED <<service_vars, matcher_vars, loop_vars, training_vars>>

\* process_frame, the frame message, the sleep and the loop test
ChannelFrame ==
    /\ c_pc = "frame"
    /\ c_pc' = "exists"
    /\ UNCHANGED <<c_file, c_cmd, c_written, c_applied>>
    /\ UNCHANGED <<service_vars, matcher_vars, loop_vars, training_vars>>

\* the host application writes a command file, replacing what is there
ChannelHostWrite ==
    /\ Len(c_written) < MaxWrites
    /\ \E c \in ChannelCommands :
         /\ c_file' = c
         /\ c_written' = Append(c_written, c)
    /\ UNCHANGED <<c_pc, c_cmd, c_applied>>
    /\ UNCHANGED <<service_vars, matcher_vars, loop_vars, training_vars>>

ChannelNext ==
    \/ ChannelExists
    \/ ChannelRead
    \/ ChannelRemove
    \/ ChannelDispatch
    \/ ChannelFrame
    \/ ChannelHostWrite

ChannelSpec == ChannelInit /\ [][ChannelNext]_vars

----------------------------------------------------------------------------
(* face_training_capture.py: the main thread of run_training_loop and the  *)
(* daemon thread of read_commands, interleaved statement by statement.     *)
(* camera.read() blocks until the camera delivers a frame: a thread is     *)
(* inside the call from the step that enters it to the step that leaves.   *)

MaxPending == 2
MaxFrames == 2

TrainingCommands == {"CAPTURE", "STOP", "bogus"}

\* after start_training succeeded and the command thread was started
TrainingInit ==
    /\ ServiceInit
    /\ MatcherOff
    /\ LoopOff
    /\ ChannelOff
    /\ t_main = "while"
    /\ t_reader = "stdin"
    /\ t_is_running = TRUE
    /\ t_stdin = <<>>
    /\ t_cmd = ""
    /\ t_frames = 0

\* while self.is_running: capture_frame() enters self.camera.read()
TrainWhile ==
    /\ t_main = "while"
    /\ t_main' = IF t_is_running THEN "camera_read" ELSE "cleanup"
    /\ UNCHANGED <<t_reader, t_is_running, t_stdin, t_cmd, t_frames>>
    /\ UNCHANGED <<service_vars, matcher_vars, loop_vars, channel_vars>>

\* capture_frame: self.camera.read() returns, flip and overlay
TrainCaptureFrame ==
    /\ t_main = "camera_read"
    /\ t_main' = "send_frame"
    /\ UNCHANGED <<t_reader, t_is_running, t_stdin, t_cmd, t_frames>>
    /\ UNCHANGED <<service_vars, matcher_vars, loop_vars, channel_vars>>

\* send_frame and the sleep
TrainSendFrame ==
    /\ t_main = "send_frame"
    /\ t_main' = "while"
    /\ t_frames' = Min(t_frames + 1, MaxFrames)
    /\ UNCHANGED <<t_reader, t_is_running, t_stdin, t_cmd>>
    /\ UNCHANGED <<service_vars, matcher_vars, loop_vars, channel_vars>>

\* finally: cleanup(); the process ends and the daemon thread with it
TrainCleanup ==
    /\ t_main = "cleanup"
    /\ t_main' = "done"
    /\ UNCHANGED <<t_reader, t_is_running, t_stdin, t_cmd, t_frames>>
    /\ UNCHANGED <<service_vars, matcher_vars, loop_vars, channel_vars>>

\* read_commands: for line in sys.stdin; break when not running
TrainReadLine ==
    /\ t_reader = "stdin"
    /\ t_main # "done"
    /\ t_stdin # <<>>
    /\ t_stdin' = Tail(t_stdin)
    /\ IF t_is_running
       THEN t_cmd' = Head(t_stdin) /\ t_reader' = "process_command"
       ELSE t_cmd' = t_cmd /\ t_reader' = "done"
    /\ UNCHANGED <<t_main, t_is_running, t_frames>>
    /\ UNCHANGED <<service_vars, matcher_vars, loop_vars, channel_vars>>

\* process_command, called by read_commands on its own thread: CAPTURE
\* enters capture_face_encoding and its self.camera.read()
TrainProcessCommand ==
    /\ t_reader = "process_command"
    /\ t_main # "done"
    /\ t_reader' = IF t_cmd = "CAPTURE" THEN "camera_read" ELSE "stdin"
    /\ t_is_running' = IF t_cmd = "STOP" THEN FALSE ELSE t_is_running
    /\ UNCHANGED <<t_main, t_stdin, t_cmd, t_frames>>
    /\ UNCHANGED <<service_vars, matcher_vars, loop_vars, channel_vars>>

\* capture_face_encoding: self.camera.read() returns, the encoding is sent
TrainCaptureEncoding ==
    /\ t_reader = "camera_read"
    /\ t_main # "done"
    /\ t_reader' = "stdin"
    /\ UNCHANGED <<t_main, t_is_running, t_stdin, t_cmd, t_frames>>
    /\ UNCHANGED <<service_vars, matcher_vars, loop_vars, channel_vars>>

\* the host application writes a line to the program's stdin
TrainHostLine ==
    /\ t_main # "done"
    /\ Len(t_stdin) < MaxPending
    /\ \E c \in TrainingCommands : t_stdin' = Append(t_stdin, c)
    /\ UNCHANGED <<t_main, t_reader, t_is_running, t_cmd, t_frames>>
    /\ UNCHANGED <<service_vars, matcher_vars, loop_vars, channel_vars>>

TrainingNext ==
    \/ TrainWhile
    \/ TrainCaptureFrame
    \/ TrainSendFrame
    \/ TrainCleanup
    \/ TrainReadLine
    \/ TrainProcessCommand
    \/ TrainCaptureEncoding
    \/ TrainHostLine

TrainingSpec == TrainingInit /\ [][TrainingNext]_vars

----------------------------------------------------------------------------
(* Steps of the service, as seen between two states *)

\* process_frame ran on a frame that was read
Tick == pc = "frame" /\ pc' = "loop"

\* check_commands applied the command it read
Applied(cmd) == pc = "remove" /\ pc' = "frame" /\ command = cmd

\* len(faces) of the frame that the tick processed
TickFaces == NumFaces(frame', detection_mode, recognition_enabled)

\* the tick brings the count to the threshold
TickAtThreshold ==
    /\ detection_mode = "detecting"
    /\ TickFaces > 0
    /\ detection_count + 1 >= detection_threshold

\* what the recogniser answers on the first face of the tick's frame
TickMatch ==
    IF recognition_enabled /\ frame'.encodings # <<>>
    THEN recognize_face(frame'.encodings[1], workers, recognition_enabled, Now).result
    ELSE None

SigninTypes == {"signin_recognition", "signin_unknown", "signin_confirmed"}
NoSignin(msgs) == \A i \in 1..Len(msgs) : msgs[i].type \notin SigninTypes

----------------------------------------------------------------------------
(* C1 *)

\* C1 as stated: detection_count is non-zero only while the mode is
\* "detecting"; it is 0 in "idle" and in "confirmation".
C1_CountOnlyInDetecting ==
    detection_count # 0 => detection_mode = "detecting"

\* C1 amended: detection_count is 0 whenever the mode is "idle", lies in
\* 0..detection_threshold-1 while "detecting", and stays frozen at
\* detection_threshold while "confirmation".
C1_CountByMode ==
    /\ detection_mode = "idle" => detection_count = 0
    /\ detection_mode = "detecting" => detection_count \in 0..(detection_threshold - 1)
    /\ detection_mode = "confirmation" => detection_count = detection_threshold

C1_Witness ==
    /\ detection_mode = "confirmation"
    /\ detection_count = detection_threshold
    /\ pc = "check"

----------------------------------------------------------------------------
(* C2 *)

\* C2: recognition_result is non-None only while the mode is "confirmation";
\* it is None whenever the mode is "idle" or "detecting".
C2_PendingOnlyInConfirmation ==
    recognition_result # None => detection_mode = "confirmation"

C2_Witness ==
    /\ recognition_result # None
    /\ detection_mode = "confirmation"
    /\ command_file = "start_detection"

----------------------------------------------------------------------------
(* C3 *)

\* C3 as stated: a tick that completes a run of detection_threshold
\* consecutive non-empty observations in detecting invokes recognize_face
\* once, and recognize_face is never invoked on a tick whose run of
\* consecutive non-empty observations is shorter than detection_threshold.
C3_DebounceByRun ==
    [][Tick =>
        /\ run_nonempty' = detection_threshold => matcher_calls' = 1
        /\ matcher_calls' >= 1 => run_nonempty' >= detection_threshold]_vars

\* C3 amended: recognize_face is invoked at most once per tick, exactly on
\* the ticks where a non-empty observation in detecting brings
\* detection_count to detection_threshold while recognition is enabled, and
\* such a tick ends the detecting mode.  With recognition enabled this
\* happens no later than the detection_threshold-th consecutive non-empty
\* observation, and never before detection_threshold non-empty observations
\* have been seen since start_detection (they need not be consecutive: an
\* empty observation only takes one off the count).
C3_DebounceByCount ==
    [][Tick =>
        /\ matcher_calls' \in {0, 1}
        /\ matcher_calls' = 1 <=> (TickAtThreshold /\ recognition_enabled)
        /\ matcher_calls' = 1 => detection_mode' # "detecting"
        /\ (run_nonempty' = detection_threshold /\ recognition_enabled) => matcher_calls' = 1
        /\ matcher_calls' = 1 => faces_since_start' >= detection_threshold]_vars

\* the recogniser was invoked on a run shorter than the threshold
C3_Witness ==
    /\ matcher_calls = 1
    /\ run_nonempty \in 1..(detection_threshold - 1)
    /\ faces_since_start >= detection_threshold

----------------------------------------------------------------------------
(* C4 *)

\* C4: when the recogniser accepts on the tick where detection_count reaches
\* detection_threshold, the result is stored in recognition_result, exactly
\* one signin_recognition message carrying it is sent and the mode becomes
\* "confirmation"; no other tick sends a signin_recognition, and at most one
\* is sent between two start_detection commands.
C4_OneRecognition ==
    [][/\ (Tick /\ TickAtThreshold /\ TickMatch # None) =>
            /\ recognition_result' = TickMatch
            /\ detection_mode' = "confirmation"
            /\ CountType(out', "signin_recognition") = 1
            /\ LastSignin(out', "signin_recognition", None) =
                 [worker_name |-> TickMatch.worker_name,
                  confidence |-> TickMatch.confidence,
                  worker_id |-> TickMatch.worker_id]
       /\ (Tick /\ ~(TickAtThreshold /\ TickMatch # None)) =>
            CountType(out', "signin_recognition") = 0
       /\ recognitions' <= 1]_vars

C4_Witness ==
    /\ detection_mode = "confirmation"
    /\ recognitions = 1
    /\ CountType(out, "signin_recognition") = 1
    /\ recognition_result.worker_name = "Bob"

----------------------------------------------------------------------------
(* C5 *)

\* C5: when the recogniser rejects, or gives no result, on the tick where
\* detection_count reaches detection_threshold, exactly one signin_unknown
\* message is sent (and no signin_recognition) and the session is left idle
\* with detection_count 0 and no pending result.
C5_UnknownResetsToIdle ==
    [][(Tick /\ TickAtThreshold /\ TickMatch = None) =>
            /\ CountType(out', "signin_unknown") = 1
            /\ CountType(out', "signin_recognition") = 0
            /\ detection_mode' = "idle"
            /\ detection_count' = 0
            /\ recognition_result' = None]_vars

\* the recogniser was invoked and rejected
C5_Witness ==
    /\ pc = "loop"
    /\ CountType(out, "signin_unknown") = 1
    /\ matcher_calls = 1
    /\ detection_mode = "idle"

----------------------------------------------------------------------------
(* C6 *)

\* C6: in detecting, a tick with an empty observation sets detection_count
\* to max(0, detection_count - 1) and leaves the mode "detecting";
\* detection_count is never negative.
C6_DecayFloor ==
    [][/\ detection_count' >= 0
       /\ (Tick /\ detection_mode = "detecting" /\ TickFaces = 0) =>
            /\ detection_count' = Max(0, detection_count - 1)
            /\ detection_mode' = "detecting"]_vars

\* faces were counted, then two or more empty ticks took the count to 0
C6_Witness ==
    /\ detection_mode = "detecting"
    /\ faces_since_start >= 2
    /\ empty_run >= 3
    /\ detection_count = 0

----------------------------------------------------------------------------
(* C7 *)

\* C7 as stated: a stream of empty observations with no command returns the
\* session to idle; at the latest once the run of empty ticks is as long as
\* detection_threshold, which exceeds every count the run can start from.
C7_EmptyStreamReturnsToIdle ==
    empty_run >= detection_threshold => detection_mode = "idle"

\* C7 amended: a stream of empty observations with no command takes
\* detection_count down to 0 within detection_threshold - 1 ticks, and the
\* session stays in detecting for as long as the stream lasts; it is not
\* returned to idle.
C7_EmptyStreamDecaysCount ==
    /\ empty_run > 0 => detection_mode = "detecting"
    /\ empty_run >= detection_threshold - 1 => detection_count = 0

C7_Witness ==
    /\ empty_run = EmptyRunCap
    /\ detection_mode = "detecting"
    /\ detection_count = 0
    /\ faces_since_start >= detection_threshold - 1

----------------------------------------------------------------------------
(* C8 *)

\* C8: confirm_signin applied in confirmation sends exactly one
\* signin_confirmed message carrying the worker_id, worker_name and
\* confidence of the pending result, which are those announced by the
\* signin_recognition message, and leaves the session idle with
\* detection_count 0 and no pending result.
C8_ConfirmSendsPending ==
    [][(Applied("confirm_signin") /\ detection_mode = "confirmation") =>
            /\ CountType(out', "signin_confirmed") = 1
            /\ LastSignin(out', "signin_confirmed", None) =
                 [worker_name |-> recognition_result.worker_name,
                  confidence |-> recognition_result.confidence,
                  worker_id |-> recognition_result.worker_id]
            /\ LastSignin(out', "signin_confirmed", None) = announced
            /\ detection_mode' = "idle"
            /\ detection_count' = 0
            /\ recognition_result' = None]_vars

C8_Witness ==
    /\ pc = "frame"
    /\ command = "confirm_signin"
    /\ CountType(out, "signin_confirmed") = 1
    /\ LastSignin(out, "signin_confirmed", None).worker_name = "Alice"
    /\ detection_mode = "idle"

----------------------------------------------------------------------------
(* C9 *)

\* C9: confirm_signin applied with no pending result (in idle or detecting)
\* sends the status "No recognition result to confirm", sends no
\* signin_confirmed and does not invoke recognize_face.
C9_NothingToConfirm ==
    [][(Applied("confirm_signin") /\ recognition_result = None) =>
            /\ \E i \in 1..Len(out') :
                 /\ out'[i].type = "status"
                 /\ out'[i].message = "No recognition result to confirm"
            /\ CountType(out', "signin_confirmed") = 0
            /\ matcher_calls' = 0]_vars

\* a confirm applied while detecting with a count
C9_Witness ==
    /\ pc = "frame"
    /\ command = "confirm_signin"
    /\ Len(out) = 2
    /\ out[2].message = "No recognition result to confirm"
    /\ out[2].at.mode = "detecting"
    /\ out[2].at.count > 0

----------------------------------------------------------------------------
(* C10 *)

\* C10: in confirmation a tick, with an empty or a non-empty observation,
\* leaves detection_mode, detection_count and recognition_result unchanged,
\* does not invoke recognize_face and sends no sign-in message.
C10_ConfirmationFrozen ==
    [][(Tick /\ detection_mode = "confirmation") =>
            /\ detection_mode' = detection_mode
            /\ detection_count' = detection_count
            /\ recognition_result' = recognition_result
            /\ matcher_calls' = 0
            /\ NoSignin(out')]_vars

\* a tick with a face went by in confirmation
C10_Witness ==
    /\ pc = "loop"
    /\ detection_mode = "confirmation"
    /\ frame.encodings # <<>>
    /\ Len(out) = 1
    /\ out[1].type = "frame"

----------------------------------------------------------------------------
(* C11 *)

\* C11: stop_detection applied in any state (idle, detecting with any
\* count, confirmation) leaves the session idle with detection_count 0 and
\* no pending result, and sends no sign-in message.
C11_StopResetsToIdle ==
    [][Applied("stop_detection") =>
            /\ detection_mode' = "idle"
            /\ detection_count' = 0
            /\ recognition_result' = None
            /\ NoSignin(out')]_vars

\* a stop was applied in confirmation: it discarded the match announced
C11_Witness ==
    /\ pc = "frame"
    /\ command = "stop_detection"
    /\ detection_mode = "idle"
    /\ detection_count = 0
    /\ recognition_result = None
    /\ recognitions = 1
    /\ Len(out) = 2
    /\ out[1].at.mode = "confirmation"

----------------------------------------------------------------------------
(* C12 *)

\* C12: start_detection applied in any state leaves the session detecting
\* with detection_count 0 and no pending result; applied in confirmation it
\* discards the pending result, and a confirm_signin applied while nothing
\* has been announced since sends no signin_confirmed.
C12_StartRestartsDetecting ==
    [][/\ Applied("start_detection") =>
            /\ detection_mode' = "detecting"
            /\ detection_count' = 0
            /\ recognition_result' = None
            /\ NoSignin(out')
       /\ (Applied("confirm_signin") /\ announced = None) =>
            CountType(out', "signin_confirmed") = 0]_vars

\* a start was applied in confirmation
C12_Witness ==
    /\ pc = "frame"
    /\ command = "start_detection"
    /\ detection_mode = "detecting"
    /\ recognition_result = None
    /\ Len(out) = 2
    /\ out[1].at.mode = "confirmation"
    /\ out[1].at.pending

----------------------------------------------------------------------------
(* C13 *)

\* a message reporting a transition of the session
IsStarted(m) == m.type = "status" /\ m.message = "Face detection mode started for sign-in"
IsStopped(m) == m.type = "status" /\ m.message = "Face detection mode stopped"

\* C13 as stated: every message that reports a transition
\* (signin_recognition, signin_unknown, signin_confirmed, the start and stop
\* status) is printed when the session already has the mode, count and
\* pending result that it reports.
C13_EventsAfterTransition ==
    \A i \in 1..Len(out) :
        LET m == out[i]
        IN /\ m.type = "signin_recognition" => (m.at.mode = "confirmation" /\ m.at.pending)
           /\ m.type = "signin_unknown" => (m.at.mode = "idle" /\ m.at.count = 0)
           /\ m.type = "signin_confirmed" => (m.at.mode = "idle" /\ ~m.at.pending)
           /\ IsStarted(m) => (m.at.mode = "detecting" /\ m.at.count = 0 /\ ~m.at.pending)
           /\ IsStopped(m) => (m.at.mode = "idle" /\ m.at.count = 0 /\ ~m.at.pending)

\* C13 amended: every message that reports a transition is printed by the
\* handler that makes the transition, in the same step of the main loop, so
\* the session has the reported mode, count and pending result before the
\* next command is applied and before the next tick is processed; inside the
\* handler the start and stop status are printed after the assignments, but
\* signin_recognition, signin_unknown and signin_confirmed are printed
\* before them, while the session still has the mode it is leaving.
C13_EventsWithinTransitionStep ==
    \A i \in 1..Len(out) :
        LET m == out[i]
        IN /\ m.type = "signin_recognition" =>
                /\ m.at.mode = "detecting" /\ ~m.at.pending
                /\ pc = "loop"
                /\ detection_mode = "confirmation"
                /\ recognition_result # None
                /\ SigninFields(m) = SigninFields(recognition_result)
           /\ m.type = "signin_unknown" =>
                /\ m.at.mode = "detecting" /\ m.at.count = detection_threshold
                /\ pc = "loop"
                /\ detection_mode = "idle" /\ detection_count = 0
           /\ m.type = "signin_confirmed" =>
                /\ m.at.mode = "confirmation" /\ m.at.pending
                /\ pc = "frame"
                /\ detection_mode = "idle" /\ detection_count = 0
                /\ recognition_result = None
           /\ IsStarted(m) =>
                /\ m.at.mode = "detecting" /\ m.at.count = 0 /\ ~m.at.pending
                /\ pc = "frame"
                /\ detection_mode = "detecting" /\ detection_count = 0
                /\ recognition_result = None
           /\ IsStopped(m) =>
                /\ m.at.mode = "idle" /\ m.at.count = 0 /\ ~m.at.pending
                /\ pc = "frame"
                /\ detection_mode = "idle" /\ detection_count = 0
                /\ recognition_result = None

\* a recognition was announced while the session was still detecting, and
\* the host has answered before the next tick
C13_Witness ==
    /\ pc = "loop"
    /\ detection_mode = "confirmation"
    /\ command_file = "confirm_signin"
    /\ \E i \in 1..Len(out) :
         /\ out[i].type = "signin_recognition"
         /\ out[i].at.mode = "detecting"

----------------------------------------------------------------------------
(* C14 *)

\* C14: while the worker set is empty, a tick never sends a
\* signin_recognition and never takes the session into confirmation, and the
\* tick that reaches detection_threshold sends signin_unknown alone (no
\* message of a scan: recognize_face, where it is called, returns None at
\* its guard) and leaves the session idle.
C14_NoWorkersNeverAccepts ==
    [][(Tick /\ workers = <<>>) =>
            /\ CountType(out', "signin_recognition") = 0
            /\ detection_mode # "confirmation" => detection_mode' # "confirmation"
            /\ TickAtThreshold =>
                 /\ Len(out') = 2
                 /\ out'[1].type = "signin_unknown"
                 /\ out'[2].type = "frame"
                 /\ detection_mode' = "idle"
                 /\ detection_count' = 0
                 /\ recognition_result' = None
                 /\ matcher_calls' = 1 =>
                      ~recognize_face(frame'.encodings[1], workers,
                                      recognition_enabled, Now).scanned]_vars

\* the flag is still set after a reload that found nobody: recognize_face
\* was called on the threshold tick and answered None
C14_Witness ==
    /\ pc = "loop"
    /\ workers = <<>>
    /\ recognition_enabled
    /\ matcher_calls = 1
    /\ detection_mode = "idle"
    /\ CountType(out, "signin_unknown") = 1

----------------------------------------------------------------------------
(* C15 *)

\* C15: after any sequence of load_workers and reload_workers calls,
\* recognition_enabled is true if and only if the worker set contains at
\* least one worker.
C15_EnabledIffWorkers ==
    recognition_enabled <=> workers # <<>>

----------------------------------------------------------------------------
(* C16 *)

HasDecodable(file) == \E i \in 1..Len(file.FaceEncodings) : file.FaceEncodings[i].ok
ActiveWithDecodable(file) == file.json_ok /\ file.IsActive /\ HasDecodable(file)
ActiveAllDecodable(file) ==
    /\ file.json_ok
    /\ file.IsActive
    /\ file.FaceEncodings # <<>>
    /\ \A i \in 1..Len(file.FaceEncodings) : file.FaceEncodings[i].ok
DecodingFails(file) ==
    \/ ~file.json_ok
    \/ file.IsActive /\ \E i \in 1..Len(file.FaceEncodings) : ~file.FaceEncodings[i].ok
FileIds(files) == [i \in 1..Len(files) |-> files[i].Id]
WorkerIds(ws) == [i \in 1..Len(ws) |-> ws[i].id]
IsLoadError(m) == m.type = "status" /\ m.message = "Error loading file"
MatcherLoaded == m_pc \in {"loaded", "matched"}

\* C16 as stated: after a load the worker set is exactly the records that
\* are active and have at least one decodable encoding.
C16_ActiveWithDecodableEmbedding ==
    MatcherLoaded =>
        WorkerIds(m_workers) = FileIds(SelectSeq(m_store.files, ActiveWithDecodable))

\* C16 amended: after a load or reload the worker set is exactly the records
\* that parse, are active, have at least one encoding and whose encodings
\* all decode, in folder order and with all their encodings; so no worker
\* has an empty encoding list and none is inactive; every file whose
\* decoding fails is reported by one "Error loading file" status and the
\* other records are still loaded.
C16_ActiveWithAllEmbeddingsDecodable ==
    MatcherLoaded =>
        LET kept == SelectSeq(m_store.files, ActiveAllDecodable)
        IN /\ m_workers = [i \in 1..Len(kept) |->
                               [id |-> kept[i].Id, name |-> kept[i].Name,
                                encodings |-> [k \in 1..Len(kept[i].FaceEncodings) |->
                                                  kept[i].FaceEncodings[k].val]]]
           /\ \A i \in 1..Len(m_workers) : m_workers[i].encodings # <<>>
           /\ \A i \in 1..Len(m_workers) :
                 \E k \in 1..Len(m_store.files) :
                     m_store.files[k].Id = m_workers[i].id /\ m_store.files[k].IsActive
           /\ Cardinality({i \in 1..Len(m_load_out) : IsLoadError(m_load_out[i])})
                 = Len(SelectSeq(m_store.files, DecodingFails))
           /\ Len(m_load_out) = Len(SelectSeq(m_store.files, DecodingFails)) + 1

\* a record with one decodable and one undecodable encoding was skipped and
\* reported, a corrupt file was reported, and the record after them loaded
C16_Witness ==
    /\ MatcherLoaded
    /\ Len(m_store.files) = 3
    /\ ActiveWithDecodable(m_store.files[1]) /\ DecodingFails(m_store.files[1])
    /\ ~m_store.files[2].json_ok
    /\ WorkerIds(m_workers) = <<m_store.files[3].Id>>
    /\ IsLoadError(m_load_out[1]) /\ IsLoadError(m_load_out[2])

----------------------------------------------------------------------------
(* C19 *)

\* the permutations of 1..n, and a sequence rearranged by one
Perms(n) == {p \in [1..n -> 1..n] : \A i, j \in 1..n : i # j => p[i] # p[j]}
Permute(seq, p) == [i \in 1..Len(seq) |-> seq[p[i]]]

\* best_distance of a worker: the minimum over all of its encodings
BestDistance(worker, query) ==
    LET ds == {face_distance(worker.encodings[k], query) : k \in 1..Len(worker.encodings)}
    IN CHOOSE d \in ds : \A e \in ds : d <= e

\* the decision of a recognize_face call: accept or reject, and whom
Decision(rec) ==
    [accepted |-> rec.result # None,
     worker_id |-> IF rec.result # None THEN rec.result.worker_id ELSE -1]

\* C19: with at least two workers, an accepted worker is one whose best
\* distance (minimum over its encodings) is minimal over all workers and the
\* reported distance is that minimum, a rejection is decided on that minimum,
\* and the decision (accept or reject, and the accepted worker) is the same
\* for every order of the workers and for every order of any worker's
\* encodings.
C19_BestIdentityAnyOrder ==
    (m_pc = "matched" /\ Len(m_workers) >= 2) =>
        LET n == Len(m_workers)
            least == CHOOSE d \in {BestDistance(m_workers[i], m_query) : i \in 1..n} :
                        \A i \in 1..n : d <= BestDistance(m_workers[i], m_query)
        IN /\ m_match.scanned
           /\ m_match.result # None =>
                 /\ m_match.result.distance = least
                 /\ \E i \in 1..n : /\ m_workers[i].id = m_match.result.worker_id
                                     /\ BestDistance(m_workers[i], m_query) = least
           /\ m_match.result = None =>
                 \/ least > min_confidence_distance
                 \/ \E i, j \in 1..n :
                       /\ i # j
                       /\ BestDistance(m_workers[i], m_query) = least
                       /\ BestDistance(m_workers[j], m_query) - least < ambiguity_threshold
           /\ \A p \in Perms(n) :
                 Decision(recognize_face(m_query, Permute(m_workers, p), m_enabled, Now))
                    = Decision(m_match)
           /\ \A i \in 1..n : \A p \in Perms(Len(m_workers[i].encodings)) :
                 Decision(recognize_face(m_query,
                            [m_workers EXCEPT ![i].encodings = Permute(@, p)],
                            m_enabled, Now))
                    = Decision(m_match)

\* three workers; the accepted one is stored last and its best encoding is
\* not its first
C19_Witness ==
    /\ m_pc = "matched"
    /\ Len(m_workers) = 3
    /\ m_match.result # None
    /\ m_match.result.worker_id = m_workers[3].id
    /\ m_match.result.encoding_used > 0
    /\ BestDistance(m_workers[1], m_query) < BestDistance(m_workers[2], m_query)

----------------------------------------------------------------------------
(* C20 *)

HasMessage(msgs, text) == \E i \in 1..Len(msgs) : msgs[i].message = text

\* C20: with d1 the least best distance over the workers and d2 the least
\* over the others, recognize_face rejects as too weak iff d1 > 0.45 (45
\* hundredths), otherwise rejects as ambiguous iff there is a second worker
\* and d2 - d1 < 0.15, and otherwise accepts a worker at distance d1; a
\* distance of exactly 0.45 and a gap of exactly 0.15 are accepted.
C20_InclusiveBoundaries ==
    (m_pc = "matched" /\ m_match.scanned) =>
        LET n == Len(m_workers)
            bd(i) == BestDistance(m_workers[i], m_query)
            first == CHOOSE i \in 1..n : \A j \in 1..n : bd(i) <= bd(j)
            d1 == bd(first)
            rest == (1..n) \ {first}
            d2 == bd(CHOOSE i \in rest : \A j \in rest : bd(i) <= bd(j))
            weak == d1 > min_confidence_distance
            unclear == ~weak /\ rest # {} /\ d2 - d1 < ambiguity_threshold
        IN /\ n >= 1
           /\ HasMessage(m_match.out, "Match too weak") <=> weak
           /\ HasMessage(m_match.out, "Ambiguous match") <=> unclear
           /\ m_match.result = None <=> (weak \/ unclear)
           /\ m_match.result # None =>
                 /\ m_match.result.distance = d1
                 /\ m_match.result.confidence = 100 - d1
                 /\ bd(CHOOSE i \in 1..n : m_workers[i].id = m_match.result.worker_id) = d1
                 /\ rest # {} => m_match.result.distance_gap = d2 - d1

\* accepted with the distance exactly at the maximum and the gap exactly at
\* the minimum
C20_Witness ==
    /\ m_pc = "matched"
    /\ m_match.result # None
    /\ m_match.result.distance = min_confidence_distance
    /\ m_match.result.distance_gap = ambiguity_threshold
    /\ Len(m_workers) >= 2

----------------------------------------------------------------------------
(* C17 *)

\* process_frame is running
InFrame == l_pc \in {"cap_read", "detect", "compare", "decide", "send_frame"}
\* recognize_face is running
InMatch == l_pc \in {"compare", "decide"}
\* check_commands applies the command it read
CommandApplied == l_cpc = "dispatch" /\ l_cpc' = "idle"

\* C17: a command is applied only while the loop is inside its
\* check_commands call, between two process_frame calls; while process_frame
\* runs, check_commands is not running and worker list and running flag do
\* not change; the worker list changes only when a reload_workers command is
\* applied; and all through a recognize_face call the worker list is the one
\* the call started with.
C17_CommandsBetweenFrames ==
    [][/\ CommandApplied => (l_pc = "check_commands" /\ l_pc' = "check_commands")
       /\ InFrame => (l_cpc = "idle" /\ l_workers' = l_workers /\ l_running' = l_running)
       /\ l_workers' # l_workers => (CommandApplied /\ l_cmd = "reload_workers")
       /\ InMatch' => (l_workers' = l_snapshot' /\ l_idx' <= Len(l_workers') + 1)]_vars

\* a reload_workers command is waiting in the file while recognize_face is
\* at its second worker
C17_Witness ==
    /\ l_pc = "compare"
    /\ l_idx = 2
    /\ Len(l_workers) = 2
    /\ l_file = "reload_workers"
    /\ l_cpc = "idle"

----------------------------------------------------------------------------
(* C18 *)

\* C18: a command that check_commands does not recognise is reported by one
\* status (or error) message and is otherwise ignored: mode, count, pending
\* result, worker set, enabled flag and running flag are unchanged, and the
\* loop goes on to the frame.
C18_UnknownCommandIgnored ==
    [][Applied("bogus") =>
            /\ Len(out') = 1
            /\ out'[1].type \in {"status", "error"}
            /\ detection_mode' = detection_mode
            /\ detection_count' = detection_count
            /\ recognition_result' = recognition_result
            /\ workers' = workers
            /\ recognition_enabled' = recognition_enabled
            /\ running' = running
            /\ running
            /\ pc' = "frame"]_vars

\* an unknown command was applied while a match was pending
C18_Witness ==
    /\ pc = "frame"
    /\ command = "bogus"
    /\ command_file = NoFile
    /\ detection_mode = "confirmation"
    /\ recognition_result # None
    /\ Len(out) = 1
    /\ out[1].message = "Received command"

----------------------------------------------------------------------------
(* C21 *)

\* applied delivers written in order and at least once: every written
\* command appears, in the order written, one or more times in a row
RECURSIVE Delivers(_, _)
Delivers(written, applied) ==
    IF written = <<>> THEN applied = <<>>
    ELSE /\ applied # <<>>
         /\ Head(applied) = Head(written)
         /\ \/ Delivers(Tail(written), Tail(applied))
            \/ Delivers(written, Tail(applied))

\* C21: whenever check_commands has returned and the command file is gone,
\* every command the host wrote so far has been applied, in the order
\* written and at least once.
C21_DeliversAllInOrder ==
    (c_pc = "frame" /\ c_file = NoFile) => Delivers(c_written, c_applied)

----------------------------------------------------------------------------
(* C22 *)

\* C22: in the training capture program commands are applied by the main
\* loop between frame captures: while the command thread is applying a
\* command the main loop is not capturing, so the camera read of
\* capture_face_encoding never runs while the main loop is inside the
\* camera read of capture_frame.
C22_CommandsAppliedBetweenCaptures ==
    /\ t_reader = "camera_read" => t_main # "camera_read"
    /\ (t_reader = "process_command" /\ t_cmd \in {"CAPTURE", "STOP"})
          => t_main \in {"while", "done"}

----------------------------------------------------------------------------
(* C23 *)

\* a step of the loop (every step but a host write), whose messages are out'
Emits == pc' # pc

SessionCommands == {"start_detection", "stop_detection", "confirm_signin"}

\* C23: a signin_confirmed message is sent only by an applied
\* confirm_signin, one per step, and it carries the worker_id, worker_name
\* and confidence of a signin_recognition message sent earlier with no
\* start_detection, stop_detection or confirm_signin applied since; the
\* confirm consumes that recognition, so it is confirmed at most once.
\* (announced records the last signin_recognition since the last of these
\* commands: it changes only to the fields of a signin_recognition sent in
\* the step, or to None when one of the commands is applied.)
C23_ConfirmedFollowsRecognition ==
    [][/\ (Emits /\ CountType(out', "signin_confirmed") > 0) =>
            /\ Applied("confirm_signin")
            /\ CountType(out', "signin_confirmed") = 1
            /\ announced # None
            /\ LastSignin(out', "signin_confirmed", None) = announced
            /\ announced' = None
       /\ announced' # announced =>
            \/ /\ Tick
               /\ CountType(out', "signin_recognition") = 1
               /\ announced' = LastSignin(out', "signin_recognition", None)
            \/ /\ \E cmd \in SessionCommands : Applied(cmd)
               /\ announced' = None
       /\ (\E cmd \in SessionCommands : Applied(cmd)) => announced' = None
       /\ (Emits /\ CountType(out', "signin_recognition") > 0) =>
            (Tick /\ announced' = LastSignin(out', "signin_recognition", None))]_vars

\* Bob's sign-in was confirmed and nothing is left to confirm again
C23_Witness ==
    /\ pc = "frame"
    /\ command = "confirm_signin"
    /\ CountType(out, "signin_confirmed") = 1
    /\ LastSignin(out, "signin_confirmed", None).worker_id = 2
    /\ announced = None
    /\ recognition_result = None

----------------------------------------------------------------------------
(* C24 *)

\* the "stop" command has been applied: running went back to False
StopApplied == ~running /\ pc # "init"

\* C24: once the stop command has been applied, no step sends a
\* signin_recognition or signin_unknown message and detection_mode,
\* detection_count and recognition_result no longer change.
C24_NoSigninAfterStop ==
    [][StopApplied =>
          /\ session' = session
          /\ Emits => /\ CountType(out', "signin_recognition") = 0
                      /\ CountType(out', "signin_unknown") = 0]_vars

----------------------------------------------------------------------------
(* C25 *)

\* C25: applying reload_workers leaves detection_mode, detection_count and
\* recognition_result (and the running flag) unchanged and sends no sign-in
\* message; and confirm_signin applied with a pending result sends
\* signin_confirmed for that result, whatever the worker list holds by then.
C25_ReloadKeepsSession ==
    [][/\ Applied("reload_workers") =>
            /\ session' = session
            /\ running' = running
            /\ announced' = announced
            /\ NoSignin(out')
       /\ (Applied("confirm_signin") /\ recognition_result # None) =>
            /\ CountType(out', "signin_confirmed") = 1
            /\ LastSignin(out', "signin_confirmed", None).worker_id
                  = recognition_result.worker_id
            /\ workers' = workers]_vars

\* a reload has just replaced the worker list by one without the worker
\* whose match is pending, and the match is still pending
C25_Witness ==
    /\ pc = "frame"
    /\ command = "reload_workers"
    /\ command_file = NoFile
    /\ detection_mode = "confirmation"
    /\ recognition_result # None
    /\ \A i \in 1..Len(workers) : workers[i].id # recognition_result.worker_id
    /\ announced # None

====
